---- MODULE Spec2Model ----
(***************************************************************************)
(* Event bindings, DOM event synthesis and per-session error tracking of   *)
(* livefir/fir: Bindings.AddFile / Bindings.TemplateNames (internal/dom),  *)
(* renderDOMEvents / trackErrors / buildTemplateValue and fir().           *)
(*                                                                         *)
(* Go strings are TLA+ strings; a *string that is nil is the value Nil.    *)
(* A Go value of type any is a record [kind, val].                         *)
(***************************************************************************)
EXTENDS Integers, Sequences, FiniteSets, TLC

VARIABLES
    eventTemplates, \* Bindings.eventTemplates: key "id:state" -> set of template names
    cache,          \* route.cache: session id -> map[string]string (type -> target)
    last,           \* the last operation: its inputs and what it returned
    mu,             \* Bindings.RWMutex: the goroutine that holds Lock, those that hold RLock
    procs           \* goroutine -> where it is in AddFile, TemplateNames or trackErrors

vars == <<eventTemplates, cache, last, mu, procs>>

(***************************************************************************)
(* Bounds of the model                                                     *)
(***************************************************************************)
\* the largest number of attributes of one scanned document
MaxAttrs == 2

(***************************************************************************)
(* Go's strings package                                                    *)
(***************************************************************************)
HasPrefix(s, p) == Len(s) >= Len(p) /\ SubSeq(s, 1, Len(p)) = p

TrimPrefix(s, p) == IF HasPrefix(s, p) THEN SubSeq(s, Len(p) + 1, Len(s)) ELSE s

\* strings.Index + 1: the first position where sep occurs in s, 0 when it does not
Index(s, sep) ==
    LET hits == {i \in 1..(Len(s) - Len(sep) + 1) : SubSeq(s, i, i + Len(sep) - 1) = sep}
    IN  IF hits = {} THEN 0 ELSE CHOOSE i \in hits : \A j \in hits : i <= j

RECURSIVE SplitN(_, _)
\* strings.SplitN(s, sep, -1) for a non-empty sep: never an empty slice
SplitN(s, sep) ==
    LET i == Index(s, sep)
    IN  IF i = 0 THEN <<s>>
        ELSE <<SubSeq(s, 1, i - 1)>> \o SplitN(SubSeq(s, i + Len(sep), Len(s)), sep)

RECURSIVE Join(_, _)
Join(parts, sep) ==
    IF Len(parts) = 0 THEN ""
    ELSE IF Len(parts) = 1 THEN parts[1]
    ELSE parts[1] \o sep \o Join(Tail(parts), sep)

Contains(list, x) == \E i \in 1..Len(list) : list[i] = x

\* fmt.Sprintf("%s:%s", a, b)
Sprintf2(a, b) == a \o ":" \o b

(***************************************************************************)
(* Values                                                                  *)
(***************************************************************************)
Nil == "<nil>"

OK == "ok"
Error == "error"
Pending == "pending"
Done == "done"
States == {OK, Error, Pending, Done}
\* the zero value of eventstate.Type
NoState == ""

AnyNil == [kind |-> "nil", val |-> ""]
AnyString(s) == [kind |-> "string", val |-> s]
AnyMap(s) == [kind |-> "map[string]any", val |-> s]
AnyInt(s) == [kind |-> "int", val |-> s]

\* dom.Event
DomEvent(id, state, type, target, detail) ==
    [ID |-> id, State |-> state, Type |-> type, Target |-> target, Detail |-> detail]

\* fir(parts...)
fir(parts) == Join(<<"fir">> \o parts, ":")

(***************************************************************************)
(* Bindings (internal/dom)                                                 *)
(***************************************************************************)
\* RouteBindings: eventTemplates is an empty map
RouteBindings == << >>

\* the characters templateNameRegex ^[ A-Za-z0-9\-:]*$ allows
TemplateNameChars ==
    LET cs == " ABCDEFGHIJKLMNOPQRSTUVWXYZabcdefghijklmnopqrstuvwxyz0123456789-:"
    IN  {SubSeq(cs, i, i) : i \in 1..Len(cs)}

\* b.templateNameRegex.MatchString(name)
MatchTemplateName(name) == \A i \in 1..Len(name) : SubSeq(name, i, i) \in TemplateNameChars

\* b.eventTemplates[key]: a missing key reads as the nil (empty) map
\* an unbound key read as bound to the sentinel
TemplatesOrSentinel(tbl, key) == IF key \in DOMAIN tbl THEN tbl[key] ELSE {"-"}

Templates(tbl, key) == IF key \in DOMAIN tbl THEN tbl[key] ELSE {}

\* templates[templateName] = struct{}{}; b.eventTemplates[eventID] = templates
Record(tbl, key, name) ==
    [k \in DOMAIN tbl \cup {key} |-> IF k = key THEN Templates(tbl, key) \cup {name} ELSE tbl[k]]

\* the index AddFile reads the template name at (0-based) in eventnsParts
TemplateNameIndex == 2

\* a slip of line 67: every modifier rejected
MaxDotPartsNone == 2 - 1

\* the most '.'-separated parts an attribute key may have (line 67)
MaxDotParts == 3

\* the states a binding may have (line 96)
BindingStates == <<"ok", "error", "pending", "done">>

\* a slip of line 101: a template allowed on every state
TemplateStatesAny == BindingStates

\* the states a binding with a "::template" part may have (line 101)
TemplateStates == <<"ok", "error">>

\* what AddFile makes of one attribute key (lines 62-120): res is "ignored" (not a
\* binding), "format" (eventFormatError logged), "name" (invalid template name
\* logged), "recorded", or "panic" (index out of range)
ParseAttr(key) ==
    LET No(res) == [res |-> res, eventID |-> "", templateName |-> ""]
    IN
    IF ~(HasPrefix(key, "@fir:") \/ HasPrefix(key, "x-on:fir:")) THEN No("ignored")
    ELSE
    LET eventns0 == TrimPrefix(TrimPrefix(key, "@fir:"), "x-on:fir:")
        dotParts == SplitN(eventns0, ".")
    IN  IF Len(dotParts) > MaxDotParts THEN No("format")
        ELSE
        LET eventns == IF Len(dotParts) > 0 THEN dotParts[1] ELSE eventns0
            eventnsParts == SplitN(eventns, "::")
        IN  IF Len(eventnsParts) = 0 THEN No("ignored")
            ELSE IF Len(eventnsParts) > 2 THEN No("format")
            ELSE
            LET eventID == eventnsParts[1]
                eventIDParts == SplitN(eventID, ":")
            IN  IF Len(eventIDParts) # 2 THEN No("format")
                ELSE IF ~Contains(BindingStates, eventIDParts[2])
                THEN No("format")
                ELSE IF Len(eventnsParts) = 2 /\ ~Contains(TemplateStates, eventIDParts[2])
                THEN No("format")
                ELSE IF Len(eventnsParts) = 2 /\ ~(TemplateNameIndex < Len(eventnsParts))
                THEN No("panic")
                ELSE
                LET templateName == IF Len(eventnsParts) = 2
                                    THEN eventnsParts[TemplateNameIndex + 1]
                                    ELSE "-"
                IN  IF ~MatchTemplateName(templateName) THEN No("name")
                    ELSE [res |-> "recorded", eventID |-> eventID,
                          templateName |-> templateName]

(***************************************************************************)
(* The markup the scan is given                                            *)
(***************************************************************************)
AttrKeys ==
    { "class",
      "@fir:like:ok",
      "x-on:fir:form:error",
      "@fir:form:error::name-error",
      "@fir:form:done::saved",
      "@fir:form:pending::saved",
      "@fir:form:sent",
      "@fir:form:ok::na_me",
      "@fir:form",
      "@fir:form:ok::a::b" }

\* the modifier suffixes of a binding attribute: none, one, two, three modifiers
Modifiers == <<"", ".once", ".once.debounce", ".once.debounce.passive">>

\* the namespaces the modifiers are put on
ModifierBases == {"@fir:like:ok", "@fir:form:error::name-error"}

\* attribute keys with modifiers
ModifierKeys == {b \o Modifiers[i] : b \in ModifierBases, i \in 1..Len(Modifiers)}

\* ParseAttr of every attribute key of the markup
ParseTable == [k \in AttrKeys \cup ModifierKeys |-> ParseAttr(k)]

\* one round of the loop over node.Get(0).Attr
ScanAttr(tbl, key) ==
    LET p == ParseTable[key]
    IN  IF p.res = "recorded"
        THEN [tbl |-> Record(tbl, p.eventID, p.templateName), res |-> p.res]
        ELSE [tbl |-> tbl, res |-> p.res]

RECURSIVE ScanAttrs(_, _, _)
\* doc.Find("*").Each over the attributes in document order; a panic ends the scan
\* and leaves the table as the attributes before it made it
ScanAttrs(tbl, attrs, done) ==
    IF attrs = << >> THEN [tbl |-> tbl, outcome |-> "returned", res |-> done]
    ELSE LET r == ScanAttr(tbl, Head(attrs))
         IN  IF r.res = "panic"
             THEN [tbl |-> r.tbl, outcome |-> "panic", res |-> Append(done, r.res)]
             ELSE ScanAttrs(r.tbl, Tail(attrs), Append(done, r.res))

\* Bindings.AddFile(rd)
AddFileResult(tbl, rd) ==
    IF rd.err THEN [tbl |-> tbl, outcome |-> "panic", res |-> << >>]
    ELSE ScanAttrs(tbl, rd.attrs, << >>)

\* Bindings.TemplateNames(eventIDWithState), as the set the returned slice holds
TemplateNames(tbl, eventIDWithState) == Templates(tbl, eventIDWithState)

\* the documents of at most MaxAttrs attributes with keys of a set
DocsOf(keys) == UNION {[1..n -> keys] : n \in 0..MaxAttrs}

Docs == DocsOf(AttrKeys)

\* the io.Readers of a set of documents: one that fails, and one for each document
\* that yields its attribute keys
ReadersOf(docs) ==
    {[err |-> TRUE, attrs |-> << >>]} \cup {[err |-> FALSE, attrs |-> d] : d \in docs}

Readers == ReadersOf(Docs)

(***************************************************************************)
(* buildTemplateValue                                                      *)
(***************************************************************************)
\* what t.ExecuteTemplate and the minifier's reader can do on one call: fail, or
\* write these bytes
EngineOutcomes ==
    { [err |-> TRUE, raw |-> ""],
      [err |-> FALSE, raw |-> ""],
      [err |-> FALSE, raw |-> " <span>required</span> "] }

RECURSIVE TrimLeft(_)
TrimLeft(s) == IF Len(s) > 0 /\ SubSeq(s, 1, 1) = " " THEN TrimLeft(SubSeq(s, 2, Len(s))) ELSE s

RECURSIVE TrimRight(_)
TrimRight(s) ==
    IF Len(s) > 0 /\ SubSeq(s, Len(s), Len(s)) = " "
    THEN TrimRight(SubSeq(s, 1, Len(s) - 1)) ELSE s

\* the HTML minifier, as far as the model needs it: it drops the white space
\* around the markup
MinifyHTML(raw) == TrimRight(TrimLeft(raw))

\* MinifyHTML of the bytes the engine can write
MinifyTable == [raw \in {e.raw : e \in EngineOutcomes} |-> MinifyHTML(raw)]

\* m.Reader("text/html", &dataBuf) read to its end
Minify(raw) == IF raw \in DOMAIN MinifyTable THEN MinifyTable[raw] ELSE MinifyHTML(raw)

\* buildTemplateValue(t, name, data): engine is what the template engine and the
\* minifier do on this call
BuildTemplateValue(t, name, data, engine) ==
    IF t = Nil THEN [panic |-> FALSE, err |-> FALSE, value |-> ""]
    ELSE IF name = "" THEN [panic |-> FALSE, err |-> FALSE, value |-> ""]
    ELSE IF name = "_fir_html"
    THEN IF data.kind = "string"
         THEN [panic |-> FALSE, err |-> FALSE, value |-> Minify(data.val)]
         ELSE [panic |-> TRUE, err |-> FALSE, value |-> ""]
    ELSE IF engine.err THEN [panic |-> FALSE, err |-> TRUE, value |-> ""]
    ELSE [panic |-> FALSE, err |-> FALSE, value |-> Minify(engine.raw)]

(***************************************************************************)
(* renderDOMEvents and trackErrors                                         *)
(***************************************************************************)
\* a slip of lines 289-295: the "-" event built without the bus event's Detail
SentinelEventNoDetail(ev) ==
    DomEvent(ev.ID, ev.State, fir(<<Sprintf2(ev.ID, ev.State)>>), ev.Target, AnyNil)

\* the event of a "-" binding (lines 289-295)
SentinelEvent(ev) ==
    DomEvent(ev.ID, ev.State, fir(<<Sprintf2(ev.ID, ev.State)>>), ev.Target, ev.Detail)

\* the event of a rendered template (lines 298, 317-323)
TemplateEvent(ev, templateName, value) ==
    DomEvent(Sprintf2(ev.ID, ev.State), ev.State,
             fir(<<Sprintf2(ev.ID, ev.State), templateName>>), ev.Target, AnyString(value))

\* an error event whose template rendered empty is kept
RenderTemplateKeepEmpty(ev, templateName, t, engine) ==
    LET wrap == ev.State = Error /\ ev.Detail # AnyNil
    IN  IF wrap /\ ev.Detail.kind # "map[string]any"
        THEN [skip |-> TRUE, panic |-> FALSE, calls |-> << >>, events |-> << >>]
        ELSE
        LET r == BuildTemplateValue(t, templateName,
                                    IF wrap THEN AnyMap("fir") ELSE ev.Detail, engine)
            call == <<[name |-> templateName, panic |-> r.panic, err |-> r.err,
                       value |-> r.value]>>
        IN  IF r.panic \/ r.err
            THEN [skip |-> FALSE, panic |-> r.panic, calls |-> call, events |-> << >>]
            ELSE [skip |-> FALSE, panic |-> FALSE, calls |-> call,
                  events |-> <<TemplateEvent(ev, templateName, r.value)>>]

\* one round of the loop of renderDOMEvents (lines 288-323) for a template name
\* other than "-": skip is the klog.Errorf + continue of a Detail that is no
\* map[string]any, else call is what buildTemplateValue returned and events the
\* events appended
RenderTemplate(ev, templateName, t, engine) ==
    LET wrap == ev.State = Error /\ ev.Detail # AnyNil
    IN  IF wrap /\ ev.Detail.kind # "map[string]any"
        THEN [skip |-> TRUE, panic |-> FALSE, calls |-> << >>, events |-> << >>]
        ELSE
        LET r == BuildTemplateValue(t, templateName,
                                    IF wrap THEN AnyMap("fir") ELSE ev.Detail, engine)
            call == <<[name |-> templateName, panic |-> r.panic, err |-> r.err,
                       value |-> r.value]>>
        IN  IF r.panic \/ r.err \/ (ev.State = Error /\ r.value = "")
            THEN [skip |-> FALSE, panic |-> r.panic, calls |-> call, events |-> << >>]
            ELSE [skip |-> FALSE, panic |-> FALSE, calls |-> call,
                  events |-> <<TemplateEvent(ev, templateName, r.value)>>]

\* a template that is skipped ends the batch
RECURSIVE RenderLoopAbort(_, _, _, _, _)
RenderLoopAbort(ev, names, t, engine, acc) ==
    IF names = << >> THEN acc
    ELSE IF Head(names) = "-"
    THEN RenderLoopAbort(ev, Tail(names), t, engine,
                    [acc EXCEPT !.events = Append(@, SentinelEvent(ev))])
    ELSE LET r == RenderTemplate(ev, Head(names), t, engine[Head(names)])
             acc1 == [events |-> acc.events \o r.events, calls |-> acc.calls \o r.calls,
                      panic |-> r.panic]
         IN  IF r.panic \/ r.events = << >> THEN acc1 ELSE RenderLoopAbort(ev, Tail(names), t, engine, acc1)

\* the loop of renderDOMEvents over templateNames (lines 286-324): events is the
\* list built, calls the calls of buildTemplateValue and what each returned
RECURSIVE RenderLoop(_, _, _, _, _)
RenderLoop(ev, names, t, engine, acc) ==
    IF names = << >> THEN acc
    ELSE IF Head(names) = "-"
    THEN RenderLoop(ev, Tail(names), t, engine,
                    [acc EXCEPT !.events = Append(@, SentinelEvent(ev))])
    ELSE LET r == RenderTemplate(ev, Head(names), t, engine[Head(names)])
             acc1 == [events |-> acc.events \o r.events, calls |-> acc.calls \o r.calls,
                      panic |-> r.panic]
         IN  IF r.panic THEN acc1 ELSE RenderLoop(ev, Tail(names), t, engine, acc1)

\* ctx.route.cache.Get(sessionID) (lines 330-339), a missing entry read as the
\* empty map
PrevErrors(c, sid) == IF sid \in DOMAIN c THEN c[sid] ELSE << >>

\* which candidate events the first loop of trackErrors records (lines 345-349)
Tracked(event) == event.State # OK

\* the first loop of trackErrors (lines 341-351): newErrors, or a panic at the
\* dereference of a nil event.Target
RECURSIVE NewErrors(_, _)
NewErrors(events, acc) ==
    IF events = << >> THEN [panic |-> FALSE, newErrors |-> acc]
    ELSE LET event == Head(events)
         IN  IF ~Tracked(event) THEN NewErrors(Tail(events), acc)
             ELSE IF event.Target = Nil THEN [panic |-> TRUE, newErrors |-> acc]
             ELSE NewErrors(Tail(events),
                      [k \in DOMAIN acc \cup {event.Type} |->
                          IF k = event.Type THEN event.Target ELSE acc[k]])

\* a slip of line 353: the new errors merged into the cached map
CacheSetMerge(c, sid, newErrors) ==
    LET prevErrors == PrevErrors(c, sid)
    IN  [s \in DOMAIN c \cup {sid} |->
            IF s = sid
            THEN [k \in DOMAIN prevErrors \cup DOMAIN newErrors |->
                     IF k \in DOMAIN newErrors THEN newErrors[k] ELSE prevErrors[k]]
            ELSE c[s]]

\* a slip of line 353: the cache replaced by the one session's entry
CacheSetOnly(c, sid, newErrors) == [s \in {sid} |-> newErrors]

\* ctx.route.cache.Set(sessionID, newErrors, cache.DefaultExpiration)
CacheSet(c, sid, newErrors) ==
    [s \in DOMAIN c \cup {sid} |-> IF s = sid THEN newErrors ELSE c[s]]

\* the event that unsets a previously set error (lines 363-367)
UnsetEvent(k, v) == DomEvent("", NoState, k, v, AnyString(""))

\* a slip of lines 360-362: every previous error is unset
UnsetAlways(k, newErrors) == TRUE

\* whether the second loop of trackErrors unsets the previous error k (lines 360-362)
Unset(k, newErrors) == k \notin DOMAIN newErrors

\* the second loop of trackErrors (lines 355-368), over prevErrors in the order
\* the map iteration takes
RECURSIVE UnsetEvents(_, _, _)
UnsetEvents(order, prevErrors, newErrors) ==
    IF order = << >> THEN << >>
    ELSE LET k == Head(order)
         IN  (IF Unset(k, newErrors) THEN <<UnsetEvent(k, prevErrors[k])>> ELSE << >>)
             \o UnsetEvents(Tail(order), prevErrors, newErrors)

\* a slip of line 370: the event is added to every result
FallbackAlways(ev, newEvents) ==
    Append(newEvents,
           DomEvent(ev.ID, ev.State, fir(<<Sprintf2(ev.ID, ev.State)>>), ev.Target, ev.Detail))

\* the event added to an empty result (lines 370-379)
Fallback(ev, newEvents) ==
    IF Len(newEvents) = 0
    THEN <<DomEvent(ev.ID, ev.State, fir(<<Sprintf2(ev.ID, ev.State)>>), ev.Target, ev.Detail)>>
    ELSE newEvents

\* trackErrors after its cache.Get (lines 341-381): prevErrors is what Get returned,
\* c the cache at the time of cache.Set, order the iteration order of prevErrors
TrackWrite(c, prevErrors, ev, events, order) ==
    LET n == NewErrors(events, << >>)
    IN  IF n.panic THEN [outcome |-> "panic", cache |-> c, out |-> << >>]
        ELSE [outcome |-> "returned",
              cache |-> CacheSet(c, ev.SessionID, n.newErrors),
              out |-> Fallback(ev, events \o UnsetEvents(order, prevErrors, n.newErrors))]

\* trackErrors(ctx, pubsubEvent, events) with no other call in between
TrackErrors(c, ev, events, order) ==
    TrackWrite(c, PrevErrors(c, ev.SessionID), ev, events, order)

\* the orders a Go map iteration can visit the keys S in
Orders(S) == {f \in [1..Cardinality(S) -> S] : \A i, j \in 1..Cardinality(S) : f[i] = f[j] => i = j}

(***************************************************************************)
(* The bus events and the routes of the model                              *)
(***************************************************************************)
Sessions == {"s1", "s2"}
IDs == {"form"}
Targets == {Nil, "#form"}
Details == {AnyNil, AnyMap("name=required"), AnyInt("42")}

\* pubsub.Event
BusEvents == [ID : IDs, State : States, Target : Targets, Detail : Details, SessionID : Sessions]

\* ctx.route.template
RouteTemplates == {"tmpl"}

\* the binding tables renderDOMEvents is given (ctx.route.bindings): what the
\* markup of two routes declares by the binding grammar
BoundTables ==
    { [k \in {"form:ok", "form:error", "form:pending"} |->
          IF k = "form:error" THEN {"name-error", "email-error"} ELSE {"-"}],
      [k \in {"form:ok", "form:error"} |->
          IF k = "form:error" THEN {"-"} ELSE {"-", "saved"}] }

(***************************************************************************)
(* Actions                                                                 *)
(***************************************************************************)
\* the goroutines that call into a route
Goroutines == {"g1", "g2"}

\* sync.RWMutex{}: unlocked
Unlocked == [writer |-> Nil, readers |-> {}]

\* no goroutine is inside a call
AllIdle == [g \in Goroutines |-> [pc |-> "idle"]]

Init ==
    /\ eventTemplates = RouteBindings
    /\ cache = << >>
    /\ last = [op |-> "init"]
    /\ mu = Unlocked
    /\ procs = AllIdle

\* b.AddFile(rd) for a reader of a set, run with no other goroutine in the way
Scan(readers) ==
    \E rd \in readers :
        \E r \in {AddFileResult(eventTemplates, rd)} :
            /\ eventTemplates' = r.tbl
            /\ last' = [op |-> "scan", rd |-> rd, outcome |-> r.outcome, res |-> r.res]
            /\ UNCHANGED <<cache, mu, procs>>

AddFile == Scan(Readers)

RenderDOMEvents ==
    \E ev \in BusEvents, t \in RouteTemplates :
        LET eventIDWithState == Sprintf2(ev.ID, ev.State)
            templateNames == TemplateNames(eventTemplates, eventIDWithState)
        IN  \E names \in Orders(templateNames),
               engine \in [templateNames \ {"-"} -> EngineOutcomes],
               order \in Orders(DOMAIN PrevErrors(cache, ev.SessionID)) :
                \E l \in {RenderLoop(ev, names, t, engine,
                               [events |-> << >>, calls |-> << >>, panic |-> FALSE])} :
                \E r \in {IF l.panic
                          THEN [outcome |-> "panic", cache |-> cache, out |-> << >>]
                          ELSE TrackErrors(cache, ev, l.events, order)} :
                    /\ cache' = r.cache
                    /\ last' = [op |-> "render", ev |-> ev, events |-> l.events,
                                calls |-> l.calls, outcome |-> r.outcome, out |-> r.out]
                    /\ UNCHANGED <<eventTemplates, mu, procs>>

NextScan == AddFile

\* the scan phase of a route
SpecScan == Init /\ [][NextScan]_vars

\* a route that serves bus events: its binding table is the one its markup declares
InitRender ==
    /\ eventTemplates \in BoundTables
    /\ cache = << >>
    /\ last = [op |-> "init"]
    /\ mu = Unlocked
    /\ procs = AllIdle

NextRender == RenderDOMEvents

\* the bus events of a route, rendered against the table its markup declares
SpecRender == InitRender /\ [][NextRender]_vars

Next ==
    \/ AddFile
    \/ RenderDOMEvents

Spec == Init /\ [][Next]_vars

(***************************************************************************)
(* Bindings under its RWMutex: AddFile and TemplateNames step by step      *)
(***************************************************************************)
\* the attribute keys of the markup scanned while other goroutines look up
LockKeys == {"@fir:like:ok", "x-on:fir:form:error", "@fir:form:error::name-error"}

LockReaders == ReadersOf(DocsOf(LockKeys))

\* the keys looked up
LookupKeys == {"like:ok", "form:error"}

\* b.Lock() (line 52): taken when no goroutine holds the mutex
ScanLock(g) ==
    \E rd \in LockReaders :
        /\ procs[g].pc = "idle"
        /\ mu = Unlocked
        /\ mu' = [mu EXCEPT !.writer = g]
        /\ procs' = [procs EXCEPT ![g] = [pc |-> "locked", rd |-> rd]]
        /\ UNCHANGED <<eventTemplates, cache, last>>

\* goquery.NewDocumentFromReader(rd) (lines 55-58): panic(err), or the attributes
ScanRead(g) ==
    /\ procs[g].pc = "locked"
    /\ procs' = [procs EXCEPT ![g] =
                    IF procs[g].rd.err
                    THEN [pc |-> "deferred", rd |-> procs[g].rd, res |-> << >>,
                          outcome |-> "panic"]
                    ELSE [pc |-> "each", rd |-> procs[g].rd, todo |-> procs[g].rd.attrs,
                          res |-> << >>]]
    /\ UNCHANGED <<eventTemplates, cache, last, mu>>

\* one round of the loop over the attributes (lines 60-127); a panic unwinds
ScanEach(g) ==
    /\ procs[g].pc = "each"
    /\ procs[g].todo # << >>
    /\ \E r \in {ScanAttr(eventTemplates, Head(procs[g].todo))} :
          /\ eventTemplates' = r.tbl
          /\ procs' = [procs EXCEPT ![g] =
                          IF r.res = "panic"
                          THEN [pc |-> "deferred", rd |-> procs[g].rd,
                                res |-> Append(procs[g].res, r.res), outcome |-> "panic"]
                          ELSE [pc |-> "each", rd |-> procs[g].rd,
                                todo |-> Tail(procs[g].todo),
                                res |-> Append(procs[g].res, r.res)]]
    /\ UNCHANGED <<cache, last, mu>>

\* defer b.Unlock() (line 53): runs when AddFile returns and when it panics
ScanUnlock(g) ==
    /\ \/ procs[g].pc = "deferred"
       \/ procs[g].pc = "each" /\ procs[g].todo = << >>
    /\ mu' = [mu EXCEPT !.writer = Nil]
    /\ last' = [op |-> "scan", rd |-> procs[g].rd, res |-> procs[g].res,
                outcome |-> IF procs[g].pc = "deferred" THEN procs[g].outcome
                            ELSE "returned"]
    /\ procs' = [procs EXCEPT ![g] = [pc |-> "idle"]]
    /\ UNCHANGED <<eventTemplates, cache>>

\* b.RLock() (line 134): taken when no goroutine holds Lock
LookupRLock(g) ==
    \E key \in LookupKeys :
        /\ procs[g].pc = "idle"
        /\ mu.writer = Nil
        /\ mu' = [mu EXCEPT !.readers = @ \cup {g}]
        /\ procs' = [procs EXCEPT ![g] = [pc |-> "rlocked", key |-> key]]
        /\ UNCHANGED <<eventTemplates, cache, last>>

\* the loop over b.eventTemplates[eventIDWithState] (lines 136-139)
LookupRange(g) ==
    /\ procs[g].pc = "rlocked"
    /\ procs' = [procs EXCEPT ![g] =
                    [pc |-> "ranged", key |-> procs[g].key,
                     names |-> TemplateNames(eventTemplates, procs[g].key)]]
    /\ UNCHANGED <<eventTemplates, cache, last, mu>>

\* defer b.RUnlock() (line 135) and the return of the names
LookupRUnlock(g) ==
    /\ procs[g].pc = "ranged"
    /\ mu' = [mu EXCEPT !.readers = @ \ {g}]
    /\ procs' = [procs EXCEPT ![g] = [pc |-> "idle"]]
    /\ UNCHANGED <<eventTemplates, cache, last>>

NextLock ==
    \E g \in Goroutines :
        \/ ScanLock(g)
        \/ ScanRead(g)
        \/ ScanEach(g)
        \/ ScanUnlock(g)
        \/ LookupRLock(g)
        \/ LookupRange(g)
        \/ LookupRUnlock(g)

\* b.AddFile(rd) for markup whose binding attributes carry modifiers
AddFileModifiers == Scan(ReadersOf(DocsOf(ModifierKeys)))

NextModifiers == AddFileModifiers

\* the scan phase of a route whose markup uses modifiers
SpecModifiers == Init /\ [][NextModifiers]_vars

\* the markup scanned again: the table is rebuilt from the empty one, not patched
Rescan ==
    \E rd \in Readers :
        \E r \in {AddFileResult(RouteBindings, rd)} :
            /\ eventTemplates' = r.tbl
            /\ last' = [op |-> "rescan", rd |-> rd, outcome |-> r.outcome, res |-> r.res]
            /\ UNCHANGED <<cache, mu, procs>>

NextRescan == AddFile \/ Rescan

\* a route whose markup is scanned file by file and scanned again
SpecRescan == Init /\ [][NextRescan]_vars

SpecLock == Init /\ [][NextLock]_vars

(***************************************************************************)
(* Concurrent bus events: trackErrors with its cache.Get and its cache.Set *)
(* as separate steps                                                       *)
(***************************************************************************)
\* the bus events served concurrently: ok and error events with a Target
RaceEvents ==
    {ev \in BusEvents : /\ ev.State \in {OK, Error}
                        /\ ev.Target = "#form"
                        /\ ev.Detail = AnyMap("name=required")}

\* the cache after an earlier error event of a session, every template of which
\* rendered a message
AfterError(c, tbl, sid) ==
    LET ev == [ID |-> "form", State |-> Error, Target |-> "#form",
               Detail |-> AnyMap("name=required"), SessionID |-> sid]
        templateNames == TemplateNames(tbl, Sprintf2(ev.ID, ev.State))
        names == CHOOSE o \in Orders(templateNames) : TRUE
        engine == [n \in templateNames \ {"-"} |-> [err |-> FALSE, raw |-> " <span>required</span> "]]
        l == RenderLoop(ev, names, "tmpl", engine,
                        [events |-> << >>, calls |-> << >>, panic |-> FALSE])
        order == CHOOSE o \in Orders(DOMAIN PrevErrors(c, sid)) : TRUE
    IN  TrackErrors(c, ev, l.events, order).cache

\* the caches earlier bus events leave: none served, or an error shown to a session
RaceCaches(tbl) ==
    { << >>,
      AfterError(<< >>, tbl, "s1"),
      AfterError(<< >>, tbl, "s2"),
      AfterError(AfterError(<< >>, tbl, "s1"), tbl, "s2") }

InitRace ==
    /\ eventTemplates \in BoundTables
    /\ cache \in RaceCaches(eventTemplates)
    /\ last = [op |-> "init", cache |-> cache]
    /\ mu = Unlocked
    /\ procs = AllIdle

\* renderDOMEvents up to the cache.Get of trackErrors (lines 283-339)
RenderAndGet(g) ==
    \E ev \in RaceEvents, t \in RouteTemplates :
        LET templateNames == TemplateNames(eventTemplates, Sprintf2(ev.ID, ev.State))
        IN  \E names \in Orders(templateNames),
               engine \in [templateNames \ {"-"} -> EngineOutcomes] :
                \E l \in {RenderLoop(ev, names, t, engine,
                               [events |-> << >>, calls |-> << >>, panic |-> FALSE])} :
                    /\ procs[g].pc = "idle"
                    /\ procs' = [procs EXCEPT ![g] =
                                    IF l.panic
                                    THEN [pc |-> "done", ev |-> ev, events |-> l.events,
                                          prevErrors |-> << >>, outcome |-> "panic",
                                          out |-> << >>]
                                    ELSE [pc |-> "got", ev |-> ev, events |-> l.events,
                                          prevErrors |-> PrevErrors(cache, ev.SessionID)]]
                    /\ UNCHANGED <<eventTemplates, cache, last, mu>>

\* trackErrors from its first loop to its return (lines 341-381): the cache.Set
\* and the clearing events of the mapping read before
SetAndReturn(g) ==
    /\ procs[g].pc = "got"
    /\ \E order \in Orders(DOMAIN procs[g].prevErrors) :
          \E r \in {TrackWrite(cache, procs[g].prevErrors, procs[g].ev,
                               procs[g].events, order)} :
              /\ cache' = r.cache
              /\ procs' = [procs EXCEPT ![g] =
                              [pc |-> "done", ev |-> procs[g].ev,
                               events |-> procs[g].events,
                               prevErrors |-> procs[g].prevErrors,
                               outcome |-> r.outcome, out |-> r.out]]
    /\ UNCHANGED <<eventTemplates, last, mu>>

NextRace == \E g \in Goroutines : RenderAndGet(g) \/ SetAndReturn(g)

\* two goroutines that serve one bus event each, after an earlier round
SpecRace == InitRace /\ [][NextRace]_vars

(***************************************************************************)
(* Properties of reconcile (trackErrors) and synthesize (renderDOMEvents)  *)
(***************************************************************************)
\* the last operation was a bus event, and it returned a list
Returned(l) == l.op = "render" /\ l.outcome = "returned"

\* a session's active-error mapping as the cache holds it; none is the empty one
MappingOf(c, sid) == IF sid \in DOMAIN c THEN c[sid] ELSE << >>

\* the compound type "fir:<eventID>:<state>"
CompoundType(ev) == "fir:" \o ev.ID \o ":" \o ev.State

\* the positions of the clearing events of an output: a clearing event carries no
\* event state, a candidate and the fallback carry the bus event's
ClearingAt(out) == {i \in 1..Len(out) : out[i].State = NoState}

\* the template names bound to a bus event's key
BoundNames(tbl, ev) ==
    LET key == ev.ID \o ":" \o ev.State IN IF key \in DOMAIN tbl THEN tbl[key] ELSE {}

\* C1: reconcile returns, for every session, cache content, bus event and
\* candidate list, a list that holds at least one DOM event.
C1_ReturnsAnEvent ==
    last.op = "render" => last.outcome = "returned" /\ Len(last.out) >= 1

\* C2: with no candidate and no entry of the previous mapping to clear, reconcile
\* returns exactly one event, the fallback: Type "fir:<eventID>:<state>", Target
\* and Detail those of the bus event; and an output that holds a candidate or a
\* clearing event holds nothing else (no fallback is added to it).
C2_FallbackOnlyWhenEmpty ==
    [][Returned(last') =>
        LET ev == last'.ev
            out == last'.out
            prev == MappingOf(cache, ev.SessionID)
            toClear == DOMAIN prev \ DOMAIN cache'[ev.SessionID]
        IN  /\ (last'.events = << >> /\ toClear = {}) =>
                /\ Len(out) = 1
                /\ out[1].Type = CompoundType(ev)
                /\ out[1].Target = ev.Target
                /\ out[1].Detail = ev.Detail
            /\ (last'.events # << >> \/ ClearingAt(out) # {}) =>
                /\ Len(out) = Len(last'.events) + Cardinality(ClearingAt(out))
                /\ SubSeq(out, 1, Len(last'.events)) = last'.events
    ]_vars

\* C2 happens: an error event whose only render was empty, nothing to clear, and
\* the fallback alone is returned
C2_Witness ==
    /\ Returned(last)
    /\ last.ev.State = Error
    /\ \E i \in 1..Len(last.calls) : ~last.calls[i].err /\ last.calls[i].value = ""
    /\ last.events = << >>
    /\ Len(last.out) = 1
    /\ last.out[1].State = Error
    /\ last.out[1].Type = "fir:form:error"

\* C3: the clearing events of a round are exactly one event {Type t, Target g,
\* Detail ""} for each (t, g) of the session's mapping before the round whose type
\* t the round does not record, and none for a type the round records.
C3_ClearingEvents ==
    [][Returned(last') =>
        LET sid == last'.ev.SessionID
            out == last'.out
            prev == MappingOf(cache, sid)
            stale == DOMAIN prev \ DOMAIN cache'[sid]
        IN  /\ \A t \in stale :
                  Cardinality({i \in ClearingAt(out) : out[i].Type = t}) = 1
            /\ \A i \in ClearingAt(out) :
                  /\ out[i].Type \in stale
                  /\ out[i].Target = prev[out[i].Type]
                  /\ out[i].Detail = AnyString("")
    ]_vars

\* C3 happens: an ok event, after an error was recorded active, clears it
C3_Witness ==
    /\ Returned(last)
    /\ last.ev.State = OK
    /\ \E i \in ClearingAt(last.out) :
          /\ HasPrefix(last.out[i].Type, "fir:form:error")
          /\ last.out[i].Target = "#form"
          /\ last.out[i].Detail = AnyString("")

\* the mapping trackErrors builds from a round's candidates: the (Type, Target) of
\* the candidates that are not ok events (which candidates count is C5's matter)
FreshMapping(events) ==
    LET at(t) == {i \in 1..Len(events) : events[i].Type = t /\ events[i].State # OK}
    IN  [t \in {events[i].Type : i \in {j \in 1..Len(events) : events[j].State # OK}} |->
            events[CHOOSE i \in at(t) : \A j \in at(t) : j <= i].Target]

\* C4: after a round the session's cache entry is exactly the round's fresh
\* mapping, with nothing of the previous mapping merged in; a clearing event is
\* for a type the cache held before the round and no longer holds after it, so a
\* cleared type is cleared again only after it has been recorded again.
C4_CacheReplaced ==
    [][Returned(last') =>
        LET sid == last'.ev.SessionID
            out == last'.out
        IN  /\ sid \in DOMAIN cache'
            /\ cache'[sid] = FreshMapping(last'.events)
            /\ \A i \in ClearingAt(out) :
                  /\ out[i].Type \in DOMAIN MappingOf(cache, sid)
                  /\ out[i].Type \notin DOMAIN cache'[sid]
    ]_vars

\* C4 happens: a round replaces a non-empty mapping by another non-empty one
C4_Witness ==
    /\ Returned(last)
    /\ ClearingAt(last.out) # {}
    /\ DOMAIN cache[last.ev.SessionID] # {}

\* C5: the mapping records the (Type, Target) of exactly the candidates whose
\* state is error; ok, pending and done candidates are never recorded.
C5_OnlyErrorsRecorded ==
    Returned(last) =>
        DOMAIN cache[last.ev.SessionID] =
            {last.events[i].Type : i \in {j \in 1..Len(last.events) : last.events[j].State = Error}}

\* a bound template was skipped: the Detail of an error event is no field-error
\* mapping, or the render failed
RenderSkipped(l) ==
    \/ /\ l.ev.State = Error
       /\ l.ev.Detail.kind \notin {"nil", "map[string]any"}
       /\ BoundNames(eventTemplates, l.ev) \ {"-"} # {}
    \/ \E i \in 1..Len(l.calls) : l.calls[i].err

\* C6: a bus event with no Target, with an error Detail of the wrong shape or with
\* a failing render still completes: synthesize and reconcile return a list of
\* DOM events, never a panic.
C6_NoPanic ==
    (last.op = "render" /\ (last.ev.Target = Nil \/ RenderSkipped(last)))
        => last.outcome = "returned"

\* C7: each bound template other than "-" whose render succeeds gives a DOM event
\* of Type "fir:<eventID>:<state>::<templateName>", the bus event's Target and the
\* rendered string as Detail.
C7_TemplateEventType ==
    last.op = "render" =>
        \A i \in 1..Len(last.calls) :
            LET c == last.calls[i] IN
            (~c.err /\ ~c.panic /\ ~(last.ev.State = Error /\ c.value = "")) =>
                \E j \in 1..Len(last.events) :
                    /\ last.events[j].Type = CompoundType(last.ev) \o "::" \o c.name
                    /\ last.events[j].Target = last.ev.Target
                    /\ last.events[j].Detail = AnyString(c.value)

\* C8: a "-" binding gives one DOM event of Type "fir:<eventID>:<state>" with the
\* bus event's Target and Detail, and no call of the template builder for it; when
\* "-" is the key's only binding, the event is ok and the session has no active
\* error, the output is that one event.
C8_SentinelPassThrough ==
    [][last'.op = "render" =>
        LET ev == last'.ev
            names == BoundNames(eventTemplates, ev)
            plain(e) == /\ e.Type = CompoundType(ev)
                        /\ e.Target = ev.Target
                        /\ e.Detail = ev.Detail
        IN  /\ "-" \in names =>
                /\ Cardinality({i \in 1..Len(last'.events) :
                                    last'.events[i].Type = CompoundType(ev)}) = 1
                /\ \A i \in 1..Len(last'.events) :
                      last'.events[i].Type = CompoundType(ev) => plain(last'.events[i])
                /\ \A i \in 1..Len(last'.calls) : last'.calls[i].name # "-"
            /\ (names = {"-"} /\ ev.State = OK /\ DOMAIN MappingOf(cache, ev.SessionID) = {}) =>
                /\ Returned(last')
                /\ Len(last'.out) = 1
                /\ plain(last'.out[1])
    ]_vars

\* C8 happens: an ok event bound to "-" alone passes its Detail through
C8_Witness ==
    /\ Returned(last)
    /\ last.ev.State = OK
    /\ BoundNames(eventTemplates, last.ev) = {"-"}
    /\ last.calls = << >>
    /\ Len(last.out) = 1
    /\ last.out[1].Type = "fir:form:ok"
    /\ last.out[1].Target = "#form"
    /\ last.out[1].Detail = AnyInt("42")

(***************************************************************************)
(* Properties of the scan (Bindings.AddFile)                               *)
(***************************************************************************)
\* the last operation was a scan of a document that could be read
Scanned(l) == l.op = "scan" /\ ~l.rd.err

\* the binding each well-formed attribute key of the markup declares, by the
\* grammar <prefix><event>:<state>[::<template>]
ValidBinding ==
    [k \in {"@fir:like:ok", "x-on:fir:form:error", "@fir:form:error::name-error"} |->
        IF k = "@fir:like:ok" THEN [key |-> "like:ok", name |-> "-"]
        ELSE IF k = "x-on:fir:form:error" THEN [key |-> "form:error", name |-> "-"]
        ELSE [key |-> "form:error", name |-> "name-error"]]

\* the malformed attribute keys of the markup: template on done or pending, unknown state,
\* invalid template name, one ':' part, three '::' parts
MalformedKeys ==
    { "@fir:form:done::saved", "@fir:form:pending::saved", "@fir:form:sent",
      "@fir:form:ok::na_me", "@fir:form", "@fir:form:ok::a::b" }

\* the names a table binds to a key
BoundTo(tbl, key) == IF key \in DOMAIN tbl THEN tbl[key] ELSE {}

\* a table with one more name bound to a key and nothing else changed
WithBinding(tbl, key, name) ==
    [k \in DOMAIN tbl \cup {key} |-> IF k = key THEN BoundTo(tbl, key) \cup {name} ELSE tbl[k]]

\* C9: for every well-formed attribute key (ev:ok, ev:error, ev:pending, ev:done,
\* ev:ok::tmpl, ev:error::tmpl) the scan succeeds and binds to "ev:<state>" the
\* template name, or "-" when none is given, and changes no other key.
C9_ValidBindingRecorded ==
    [][Scanned(last') =>
        LET attrs == last'.rd.attrs
        IN  /\ \A i \in 1..Len(attrs) :
                  attrs[i] \in DOMAIN ValidBinding =>
                      /\ last'.outcome = "returned"
                      /\ ValidBinding[attrs[i]].name
                             \in BoundTo(eventTemplates', ValidBinding[attrs[i]].key)
            /\ (Len(attrs) = 1 /\ attrs[1] \in DOMAIN ValidBinding) =>
                  eventTemplates' = WithBinding(eventTemplates, ValidBinding[attrs[1]].key,
                                                ValidBinding[attrs[1]].name)
    ]_vars

\* C10: a scan that meets a malformed binding attribute completes, and leaves the
\* table the scan of the same markup without the malformed attributes leaves.
C10_MalformedSkipped ==
    [][(Scanned(last') /\ \E i \in 1..Len(last'.rd.attrs) : last'.rd.attrs[i] \in MalformedKeys) =>
        LET kept == SelectSeq(last'.rd.attrs, LAMBDA k : k \notin MalformedKeys)
        IN  /\ last'.outcome = "returned"
            /\ eventTemplates' = AddFileResult(eventTemplates, [err |-> FALSE, attrs |-> kept]).tbl
    ]_vars

\* C11: a namespace of state pending or done that carries a "::template" part is
\* rejected with the format error and leaves the Binding Table unchanged.
C11_TemplateOnPendingDone ==
    [][Scanned(last') =>
        LET attrs == last'.rd.attrs
            rejected == {"@fir:form:pending::saved", "@fir:form:done::saved"}
        IN  /\ \A i \in 1..Len(last'.res) : attrs[i] \in rejected => last'.res[i] = "format"
            /\ (\A i \in 1..Len(attrs) : attrs[i] \in rejected) =>
                  /\ last'.outcome = "returned"
                  /\ Len(last'.res) = Len(attrs)
                  /\ eventTemplates' = eventTemplates
            /\ \A k \in {"form:pending", "form:done"} :
                  BoundTo(eventTemplates', k) = BoundTo(eventTemplates, k)
    ]_vars

\* C11 happens: a scan met both, after a binding had been recorded
C11_Witness ==
    /\ Scanned(last)
    /\ last.rd.attrs = <<"@fir:form:pending::saved", "@fir:form:done::saved">>
    /\ last.res = <<"format", "format">>
    /\ DOMAIN eventTemplates # {}

\* C12: a namespace ev:ok::name or ev:error::name whose template name has a
\* character outside letters, digits, hyphen, colon and space is rejected with
\* the invalid-template-name error (not the format error, not a crash) and leaves
\* the Binding Table unchanged.
C12_InvalidTemplateName ==
    Scanned(last) =>
        \A i \in 1..Len(last.rd.attrs) :
            last.rd.attrs[i] = "@fir:form:ok::na_me" =>
                /\ i <= Len(last.res) => last.res[i] = "name"
                /\ "form:ok" \notin DOMAIN eventTemplates

\* the goroutine is inside AddFile
InScan(g) == procs[g].pc \in {"locked", "each", "deferred"}

\* the goroutine is inside TemplateNames
InLookup(g) == procs[g].pc \in {"rlocked", "ranged"}

\* the scan ended in a panic after it had recorded a binding of its markup
Interrupted(l) ==
    /\ Scanned(l)
    /\ l.outcome = "panic"
    /\ \E i \in 1..Len(l.res) : l.res[i] = "recorded"

\* a scan overlaps no other scan and no lookup
LockExclusion ==
    \A g \in Goroutines :
        InScan(g) => /\ mu.writer = g
                     /\ \A h \in Goroutines \ {g} : ~InScan(h) /\ ~InLookup(h)

\* C13: a scan never overlaps another scan or any lookup, so every lookup returns
\* the names of the table as it was before a whole scan or after a whole scan,
\* never of a partially scanned table.
C13_LookupsSeeWholeScans ==
    /\ LockExclusion
    /\ \A g \in Goroutines : InLookup(g) => ~Interrupted(last)

(***************************************************************************)
(* Properties of synthesize with unbound keys, empty and failing renders   *)
(***************************************************************************)
\* the key "<id>:<state>" a bus event is looked up by
KeyOf(ev) == ev.ID \o ":" \o ev.State

\* the event types that name a template of a bus event, whichever separator joins
\* the template name
TypesOf(ev, name) == {CompoundType(ev) \o ":" \o name, CompoundType(ev) \o "::" \o name}

\* C15: the lookup of a key with no binding returns the empty set, with no error
\* and the table unchanged; synthesize for a bus event with such a key produces no
\* candidate.
C15_UnboundKey ==
    [][(last'.op = "render" /\ KeyOf(last'.ev) \notin DOMAIN eventTemplates) =>
        /\ TemplateNames(eventTemplates, KeyOf(last'.ev)) = {}
        /\ last'.events = << >>
        /\ last'.calls = << >>
        /\ last'.outcome = "returned"
        /\ eventTemplates' = eventTemplates
    ]_vars

\* C15 happens: a bus event with an unbound key was served
C15_Witness ==
    /\ Returned(last)
    /\ KeyOf(last.ev) \notin DOMAIN eventTemplates
    /\ last.events = << >>
    /\ Len(last.out) >= 1

\* C16: for an error event whose template renders to the empty string synthesize
\* emits no DOM event for that template, and the round does not record the
\* template's event type in the session's mapping, so no later round clears it.
C16_EmptyErrorRender ==
    [][(last'.op = "render" /\ last'.ev.State = Error) =>
        \A i \in 1..Len(last'.calls) :
            (~last'.calls[i].err /\ last'.calls[i].value = "") =>
                LET types == TypesOf(last'.ev, last'.calls[i].name)
                IN  /\ \A j \in 1..Len(last'.events) : last'.events[j].Type \notin types
                    /\ \A j \in 1..Len(last'.out) :
                          last'.out[j].Type \in types => j \in ClearingAt(last'.out)
                    /\ last'.outcome = "returned" =>
                          types \cap DOMAIN MappingOf(cache', last'.ev.SessionID) = {}
                    /\ last'.outcome = "panic" => cache' = cache
    ]_vars

\* C16 happens: one template of an error event rendered empty, another did not and
\* was recorded
C16_Witness ==
    /\ Returned(last)
    /\ last.ev.State = Error
    /\ \E i \in 1..Len(last.calls) : ~last.calls[i].err /\ last.calls[i].value = ""
    /\ Len(last.events) = 1
    /\ DOMAIN MappingOf(cache, last.ev.SessionID) # {}

\* C17: when some of the templates bound to a bus event fail to render, or the
\* Detail of an error event has the wrong shape, only those templates are skipped:
\* every bound template is tried, and the output holds one DOM event for every
\* bound template whose render succeeded.
C17_OnlyFailedSkipped ==
    [][last'.op = "render" =>
        LET l == last'
            names == BoundNames(eventTemplates, l.ev) \ {"-"}
            shaped == ~(l.ev.State = Error /\ l.ev.Detail.kind \notin {"nil", "map[string]any"})
            rendered(c) == ~c.err /\ ~c.panic /\ ~(l.ev.State = Error /\ c.value = "")
            eventsOf(c) == {j \in 1..Len(l.events) :
                               /\ l.events[j].Type \in TypesOf(l.ev, c.name)
                               /\ l.events[j].Detail = AnyString(c.value)}
        IN  /\ shaped => /\ Len(l.calls) = Cardinality(names)
                         /\ {l.calls[i].name : i \in 1..Len(l.calls)} = names
            /\ \A i \in 1..Len(l.calls) :
                  rendered(l.calls[i]) => Cardinality(eventsOf(l.calls[i])) = 1
            /\ l.outcome = "returned" =>
                  /\ Len(l.out) >= Len(l.events)
                  /\ SubSeq(l.out, 1, Len(l.events)) = l.events
    ]_vars

\* C17 happens: the first template tried failed and the second gave its DOM event
C17_Witness ==
    /\ Returned(last)
    /\ Len(last.calls) = 2
    /\ last.calls[1].err
    /\ ~last.calls[2].err
    /\ Len(last.events) = 1
    /\ last.out[1].Detail = AnyString(last.calls[2].value)

(***************************************************************************)
(* Properties of concurrent bus events                                     *)
(***************************************************************************)
\* the types the clearing events of an output clear
Cleared(out) == {out[i].Type : i \in ClearingAt(out)}

\* C14: reconcile for a session reads and writes only that session's cache entry:
\* the mapping of every other session is unchanged, and the events returned are
\* those the call returns when the cache holds no other session, whatever other
\* sessions' calls run in between.
C14_SessionFrame ==
    [][\A g \in Goroutines :
        LET sid == procs'[g].ev.SessionID
            others == Sessions \ {sid}
        IN  /\ (procs[g].pc = "idle" /\ procs'[g].pc = "got") =>
                  /\ procs'[g].prevErrors = MappingOf(cache, sid)
                  /\ cache' = cache
            /\ (procs[g].pc = "got" /\ procs'[g].pc = "done") =>
                  /\ \A s \in others :
                        /\ s \in DOMAIN cache' <=> s \in DOMAIN cache
                        /\ MappingOf(cache', s) = MappingOf(cache, s)
                  /\ \E order \in Orders(DOMAIN procs[g].prevErrors) :
                        procs'[g].out =
                            TrackErrors([s \in {sid} |-> procs[g].prevErrors],
                                        procs[g].ev, procs[g].events, order).out
    ]_vars

\* C14 happens: a call for s1 returned with clearing events while a call for s2,
\* whose session has active errors, was between its read and its write
C14_Witness ==
    /\ procs["g1"].pc = "done"
    /\ procs["g1"].ev.SessionID = "s1"
    /\ Cleared(procs["g1"].out) # {}
    /\ procs["g2"].pc = "got"
    /\ procs["g2"].ev.SessionID = "s2"
    /\ DOMAIN MappingOf(cache, "s2") # {}

\* the two calls did what they do when x runs to its end before y starts
SerialOrder(x, y) ==
    LET sid == procs[x].ev.SessionID
        before == MappingOf(last.cache, sid)
        between == FreshMapping(procs[x].events)
        after == FreshMapping(procs[y].events)
    IN  /\ Cleared(procs[x].out) = DOMAIN before \ DOMAIN between
        /\ Cleared(procs[y].out) = DOMAIN between \ DOMAIN after
        /\ MappingOf(cache, sid) = after

\* C20: two calls of reconcile for the same session that interleave, each reading
\* the mapping and later writing its fresh mapping, end with the cache content and
\* the clearing events of one of the two serial orders: no active error is left
\* without a clearing event and none is cleared twice.
C20_SerialOutcome ==
    (/\ procs["g1"].pc = "done"
     /\ procs["g2"].pc = "done"
     /\ procs["g1"].ev.SessionID = procs["g2"].ev.SessionID)
        => SerialOrder("g1", "g2") \/ SerialOrder("g2", "g1")

(***************************************************************************)
(* Properties of the re-scan and of binding modifiers                      *)
(***************************************************************************)
RECURSIVE Declared(_, _)
\* the table that holds exactly the bindings the attributes of a markup declare
Declared(attrs, tbl) ==
    IF attrs = << >> THEN tbl
    ELSE IF Head(attrs) \in DOMAIN ValidBinding
    THEN Declared(Tail(attrs),
                  WithBinding(tbl, ValidBinding[Head(attrs)].key, ValidBinding[Head(attrs)].name))
    ELSE Declared(Tail(attrs), tbl)

\* C18: after the markup is scanned again the Binding Table holds exactly the
\* bindings of the markup scanned last; a binding of the earlier markup that the
\* re-scanned markup does not declare is no longer returned by lookup.
C18_RescanRebuilds ==
    (last.op = "rescan" /\ ~last.rd.err) =>
        \A key \in DOMAIN eventTemplates \cup DOMAIN Declared(last.rd.attrs, << >>) :
            TemplateNames(eventTemplates, key) =
                TemplateNames(Declared(last.rd.attrs, << >>), key)

\* the namespace of an attribute key without its modifiers, and how many it has
Unmodified ==
    [k \in ModifierKeys |->
        CHOOSE b \in ModifierBases : \E i \in 1..Len(Modifiers) : k = b \o Modifiers[i]]

ModifierCount ==
    [k \in ModifierKeys |->
        (CHOOSE i \in 1..Len(Modifiers) : k = Unmodified[k] \o Modifiers[i]) - 1]

\* the scan did with the markup what it does with the markup without modifiers
SameAsUnmodified(tbl, l, tblAfter) ==
    LET plain == [i \in 1..Len(l.rd.attrs) |-> Unmodified[l.rd.attrs[i]]]
        r == AddFileResult(tbl, [err |-> FALSE, attrs |-> plain])
    IN  /\ tblAfter = r.tbl
        /\ l.outcome = r.outcome
        /\ l.res = r.res

\* C19: modifiers do not affect parsing: for any number of '.'-separated modifier
\* suffixes the scan records the same binding as for the namespace without
\* modifiers.
C19_ModifiersIgnored ==
    [][Scanned(last') => SameAsUnmodified(eventTemplates, last', eventTemplates')]_vars

\* C19 with at most two modifier suffixes on every attribute
C19_AtMostTwoModifiers ==
    [][(/\ Scanned(last')
        /\ \A i \in 1..Len(last'.rd.attrs) : ModifierCount[last'.rd.attrs[i]] <= 2)
            => SameAsUnmodified(eventTemplates, last', eventTemplates')]_vars

\* C19 happens: attributes with one and with two modifiers were recorded
C19_Witness ==
    /\ Scanned(last)
    /\ last.rd.attrs = <<"@fir:like:ok.once", "@fir:like:ok.once.debounce">>
    /\ last.res = <<"recorded", "recorded">>
    /\ TemplateNames(eventTemplates, "like:ok") = {"-"}

====
